---- MODULE Spec2Model ----
(***************************************************************************)
(* Model of the ehecatl web application (src/app): the tables of           *)
(* models.py, the form validators of forms.py and the request handlers of  *)
(* routes.py.                                                              *)
(*                                                                         *)
(* Text is a sequence of one-character strings, so that strip, lower,      *)
(* split and the ticker regular expression are computed, not assumed.      *)
(*                                                                         *)
(* A request runs in two steps: its reads (before_request, the form's      *)
(* validators, the handler's queries) and then db.session.commit().  Two   *)
(* requests may interleave between the steps; the storage layer's unique   *)
(* constraints are checked at the commit.                                  *)
(*                                                                         *)
(* Five specifications share the actions:                                  *)
(*   Spec      two requests interleaving, in the session of one user;      *)
(*   SpecTime  one request at a time, from either user, the clock moving;  *)
(*   SpecNorm  one user submitting the enterprise form with every short    *)
(*             raw values string;                                          *)
(*   SpecLogin   users registering and a client logging in;                *)
(*   SpecSymbol  one user creating and editing with every kind of symbol.  *)
(*                                                                         *)
(* Not modelled: a request that omits the values field, the exact grammar  *)
(* of the Email validator, the collation of the database (texts compare    *)
(* exactly), and reads of one request seeing different snapshots (the      *)
(* reads of a request are one step).                                       *)
(***************************************************************************)
EXTENDS Integers, Sequences, FiniteSets, TLC

VARIABLES users, enterprises, values_table, values_enterprises,
          uuids, clock, req

tables == <<users, enterprises, values_table, values_enterprises>>
vars == <<users, enterprises, values_table, values_enterprises,
          uuids, clock, req>>

-----------------------------------------------------------------------------
(* Bounds of the model *)

\* requests in flight at once
MaxReq == 2
\* rows of the users table
MaxUsers == 2
\* enterprises ever created (uuid4 values drawn)
MaxEnterprises == 2
\* the last instant datetime.utcnow() returns
MaxClock == 1
\* the longest raw values string of the normalisation specification
MaxRawLen == 4

-----------------------------------------------------------------------------
(* Program constants *)

ENTERPRISES_PER_PAGE == 3
NameMaxLen == 64
DescriptionMaxLen == 140
SymbolMaxLen == 10
AboutMeMaxLen == 140
ValuesMaxLen == 10

Null == <<"None">>

-----------------------------------------------------------------------------
(* Text: str.lower, str.strip, str.split, re.match *)

UpperLetters == <<"A","B","C","D","E","F","G","H","I","J","K","L","M",
                  "N","O","P","Q","R","S","T","U","V","W","X","Y","Z">>
LowerLetters == <<"a","b","c","d","e","f","g","h","i","j","k","l","m",
                  "n","o","p","q","r","s","t","u","v","w","x","y","z">>
Digits == {"0","1","2","3","4","5","6","7","8","9"}
Whitespace == {" ", "\t", "\n", "\r"}

Range(s) == {s[i] : i \in DOMAIN s}

IsUpper(c) == c \in Range(UpperLetters)
IsWordChar(c) == c \in Range(UpperLetters) \cup Range(LowerLetters) \cup Digits \cup {"_"}

LowerChar(c) ==
  IF IsUpper(c)
  THEN LowerLetters[CHOOSE i \in DOMAIN UpperLetters : UpperLetters[i] = c]
  ELSE c

\* str.lower()
Lower(s) == [i \in DOMAIN s |-> LowerChar(s[i])]

RECURSIVE LStrip(_)
LStrip(s) == IF s # <<>> /\ Head(s) \in Whitespace THEN LStrip(Tail(s)) ELSE s

RECURSIVE RStrip(_)
RStrip(s) ==
  IF s # <<>> /\ s[Len(s)] \in Whitespace
  THEN RStrip(SubSeq(s, 1, Len(s) - 1))
  ELSE s

\* str.strip()
Strip(s) == RStrip(LStrip(s))

\* str.split(sep) for a one-character separator: always at least one token
RECURSIVE SplitFrom(_, _, _)
SplitFrom(s, sep, cur) ==
  IF s = <<>> THEN <<cur>>
  ELSE IF Head(s) = sep THEN <<cur>> \o SplitFrom(Tail(s), sep, <<>>)
  ELSE SplitFrom(Tail(s), sep, Append(cur, Head(s)))

Split(s, sep) == SplitFrom(s, sep, <<>>)

\* re.match(r"\b[A-Z]{3}\b[.!?]?", s) is not None: the match is anchored at
\* the start only; after the three letters a word boundary is the end of the
\* text or a non-word character, and whatever follows is not looked at.
TickerMatch(s) ==
  /\ Len(s) >= 3
  /\ \A i \in 1..3 : IsUpper(s[i])
  /\ (Len(s) = 3 \/ ~IsWordChar(s[4]))

-----------------------------------------------------------------------------
(* wtforms validators *)

\* DataRequired: the data is non-empty and not only whitespace
DataRequired(s) == s # <<>> /\ Strip(s) # <<>>

\* Length(min, max) on a text or on a list
LengthOK(s, min, max) == Len(s) >= min /\ Len(s) <= max

\* Email(): a local part, one "@", a domain
EmailOK(s) ==
  \E i \in DOMAIN s :
    /\ s[i] = "@"
    /\ i > 1 /\ i < Len(s)
    /\ \A j \in DOMAIN s : s[j] = "@" => j = i

\* EqualTo("password")
EqualTo(a, b) == a = b

-----------------------------------------------------------------------------
(* The external exchange-symbol set, loaded once at start-up *)

\* two of its members: one of three letters and one of four
nyse_symbols == { <<"I","B","M">>, <<"A","A","P","L">> }

-----------------------------------------------------------------------------
(* Queries: Model.query.filter_by(column = x) *)

UsersByUsername(us, x) == {u \in us : u.username = x}
UsersByEmail(us, x) == {u \in us : u.email = x}
EnterprisesByName(es, x) == {e \in es : e.name = x}
EnterprisesBySymbol(es, x) == {e \in es : e.symbol = x}
ValuesByName(vs, x) == {v \in vs : v.name = x}

-----------------------------------------------------------------------------
(* forms.py.  A field's errors are the messages its validators raise, in     *)
(* order: DataRequired stops the chain, any other failure lets it go on to  *)
(* the form's validate_<field> method.                                     *)

Chain(required, others, inline) ==
  IF ~required THEN <<"Required">> ELSE others \o inline

LengthErr(s, min, max) == IF LengthOK(s, min, max) THEN <<>> ELSE <<"LengthError">>

\* RegistrationForm.validate_username
Registration_validate_username(us, username) ==
  IF UsersByUsername(us, username) # {} THEN <<"DuplicateValue">> ELSE <<>>

\* RegistrationForm.validate_email
Registration_validate_email(us, email) ==
  IF UsersByEmail(us, email) # {} THEN <<"DuplicateValue">> ELSE <<>>

RegistrationFormErrors(us, f) ==
  [username  |-> Chain(DataRequired(f.username), <<>>,
                       Registration_validate_username(us, f.username)),
   email     |-> Chain(DataRequired(f.email),
                       IF EmailOK(f.email) THEN <<>> ELSE <<"EmailError">>,
                       Registration_validate_email(us, f.email)),
   password  |-> Chain(DataRequired(f.password), <<>>, <<>>),
   password2 |-> Chain(DataRequired(f.password2),
                       IF EqualTo(f.password2, f.password) THEN <<>> ELSE <<"EqualToError">>,
                       <<>>)]

\* EditProfileForm.validate_username
EditProfile_validate_username(us, original_username, username) ==
  IF username # original_username /\ UsersByUsername(us, username) # {}
  THEN <<"DuplicateValue">>
  ELSE <<>>

EditProfileFormErrors(us, original_username, f) ==
  [username |-> Chain(DataRequired(f.username), <<>>,
                      EditProfile_validate_username(us, original_username, f.username)),
   about_me |-> LengthErr(f.about_me, 0, AboutMeMaxLen)]

\* ValueListField._remove_duplicates: the first of each lower-cased item
RECURSIVE RemoveDuplicatesFrom(_, _)
RemoveDuplicatesFrom(seq, d) ==
  IF seq = <<>> THEN <<>>
  ELSE IF Lower(Head(seq)) \in d
       THEN RemoveDuplicatesFrom(Tail(seq), d)
       ELSE <<Head(seq)>> \o RemoveDuplicatesFrom(Tail(seq), d \cup {Lower(Head(seq))})

\* (variant: "if item not in d", the items compared as they were typed)
RECURSIVE RemoveExactDuplicatesFrom(_, _)
RemoveExactDuplicatesFrom(seq, d) ==
  IF seq = <<>> THEN <<>>
  ELSE IF Head(seq) \in d
       THEN RemoveExactDuplicatesFrom(Tail(seq), d)
       ELSE <<Head(seq)>> \o RemoveExactDuplicatesFrom(Tail(seq), d \cup {Head(seq)})

remove_duplicates_CaseSensitive(seq) == RemoveExactDuplicatesFrom(seq, {})

remove_duplicates(seq) == RemoveDuplicatesFrom(seq, {})

\* ValueListField.process_formdata with remove_duplicates and to_lowercase set
process_formdata(raw, separator) ==
  LET tokens   == Split(raw, separator)
      stripped == [i \in DOMAIN tokens |-> Strip(tokens[i])]
      kept     == remove_duplicates(stripped)
  IN  [i \in DOMAIN kept |-> Lower(kept[i])]

\* (variant: the regular expression is tried first)
SymbolChecks_FormatFirst(es, symbol) ==
  IF ~TickerMatch(symbol) THEN <<"FormatError">>
  ELSE IF symbol \in nyse_symbols THEN <<"ExternalConflict">>
  ELSE IF EnterprisesBySymbol(es, symbol) # {} THEN <<"DuplicateValue">>
  ELSE <<>>

\* the ticker checks shared by both enterprise forms, in the order of the code
SymbolChecks(es, symbol) ==
  IF symbol \in nyse_symbols THEN <<"ExternalConflict">>
  ELSE IF EnterprisesBySymbol(es, symbol) # {} THEN <<"DuplicateValue">>
  ELSE IF ~TickerMatch(symbol) THEN <<"FormatError">>
  ELSE <<>>

\* EnterpriseForm.validate_symbol
Enterprise_validate_symbol(es, symbol) == SymbolChecks(es, symbol)

\* EnterpriseForm.validate_name
Enterprise_validate_name(es, name) ==
  IF EnterprisesByName(es, name) # {} THEN <<"DuplicateValue">> ELSE <<>>

\* EnterpriseForm: f.values is the ValueListField's data
EnterpriseFormErrors(es, f) ==
  [name        |-> Chain(DataRequired(f.name), LengthErr(f.name, 1, NameMaxLen),
                         Enterprise_validate_name(es, f.name)),
   description |-> Chain(DataRequired(f.description),
                         LengthErr(f.description, 1, DescriptionMaxLen), <<>>),
   symbol      |-> Chain(DataRequired(f.symbol), LengthErr(f.symbol, 1, SymbolMaxLen),
                         Enterprise_validate_symbol(es, f.symbol)),
   values      |-> LengthErr(f.values, 0, ValuesMaxLen)]

\* EditEnterpriseForm.validate_name
EditEnterprise_validate_name(es, original_name, name) ==
  IF name # original_name /\ EnterprisesByName(es, name) # {}
  THEN <<"DuplicateValue">>
  ELSE <<>>

\* (variant: the checks run whether or not the symbol changed)
EditEnterprise_validate_symbol_NoSelfExclusion(es, original_symbol, symbol) ==
  SymbolChecks(es, symbol)

\* EditEnterpriseForm.validate_symbol
EditEnterprise_validate_symbol(es, original_symbol, symbol) ==
  IF symbol # original_symbol THEN SymbolChecks(es, symbol) ELSE <<>>

EditEnterpriseFormErrors(es, original_name, original_symbol, f) ==
  [name        |-> Chain(DataRequired(f.name), LengthErr(f.name, 1, NameMaxLen),
                         EditEnterprise_validate_name(es, original_name, f.name)),
   description |-> Chain(DataRequired(f.description),
                         LengthErr(f.description, 1, DescriptionMaxLen), <<>>),
   symbol      |-> Chain(DataRequired(f.symbol), LengthErr(f.symbol, 1, SymbolMaxLen),
                         EditEnterprise_validate_symbol(es, original_symbol, f.symbol))]

\* form.validate_on_submit(): no field has an error
NoErrors(errs) == \A k \in DOMAIN errs : errs[k] = <<>>

-----------------------------------------------------------------------------
(* models.py *)

\* werkzeug.security.generate_password_hash / check_password_hash
generate_password_hash(password) == <<"hash", password>>
check_password_hash(pwhash, password) == pwhash = <<"hash", password>>

\* User(username, email) followed by set_password; user_id is the next
\* autoincrement value (no user row is ever deleted), last_seen defaults to now
NewUser(us, f, now) ==
  [user_id       |-> Cardinality(us) + 1,
   username      |-> f.username,
   email         |-> f.email,
   password_hash |-> generate_password_hash(f.password),
   about_me      |-> Null,
   last_seen     |-> now]

\* unique=True on users.username and users.email
UsersUnique(us) ==
  \A a, b \in us : a # b =>
    /\ a.user_id # b.user_id
    /\ a.username # b.username
    /\ a.email # b.email

\* (variant: the symbol column declared without unique=True)
EnterprisesUnique_NameOnly(es) ==
  \A a, b \in es : a # b => a.enterprise_id # b.enterprise_id /\ a.name # b.name

\* unique=True on enterprises.name and enterprises.symbol
EnterprisesUnique(es) ==
  \A a, b \in es : a # b =>
    /\ a.enterprise_id # b.enterprise_id
    /\ a.name # b.name
    /\ a.symbol # b.symbol

\* unique=True on values_table.name
ValuesUnique(vs) ==
  \A a, b \in vs : a # b => a.value_id # b.value_id /\ a.name # b.name

\* User.get_all_enterprises: Enterprise.query.order_by(timestamp.desc()); rows
\* with equal timestamps come in any order
get_all_enterprises(es, user) ==
  {q \in [1..Cardinality(es) -> es] :
     /\ \A i, j \in DOMAIN q : i # j => q[i] # q[j]
     /\ \A i, j \in DOMAIN q : i < j => q[i].timestamp >= q[j].timestamp}

Min(a, b) == IF a < b THEN a ELSE b

\* BaseQuery.paginate(page, per_page, error_out=False)
paginate(q, page, per_page) ==
  LET p     == IF page < 1 THEN 1 ELSE page
      total == Len(q)
      pages == (total + per_page - 1) \div per_page
  IN  [items    |-> SubSeq(q, (p - 1) * per_page + 1, Min(total, p * per_page)),
       page     |-> p,
       has_next |-> p < pages,
       has_prev |-> p > 1]

-----------------------------------------------------------------------------
(* Requests *)

Req == 1..MaxReq

\* form: the form's data; loaded: what the handler read and uses at the
\* commit; outcome, errors, resp: what the response shows
IdleReq ==
  [pc |-> "idle", kind |-> "none", user |-> 0, form |-> Null,
   loaded |-> Null, outcome |-> "none", errors |-> Null, resp |-> Null]

\* no response is waiting to be sent: a finished request's response goes out
\* before any other request moves (it touches nothing another request reads)
NoneDone == \A q \in Req : req[q].pc # "done"

\* a new request takes the lowest free slot (the slots are interchangeable)
Free(r) ==
  /\ NoneDone
  /\ req[r].pc = "idle"
  /\ \A q \in Req : q < r => req[q].pc # "idle"

\* request r is at its commit
AtCommit(r, kind) == NoneDone /\ req[r].pc = "validated" /\ req[r].kind = kind

\* the form is rendered again with its data and the errors
Invalid(kind, form, loaded, errors, resp) ==
  [pc |-> "done", kind |-> kind, user |-> 0, form |-> form,
   loaded |-> loaded, outcome |-> "invalid", errors |-> errors, resp |-> resp]

\* an exception no handler catches: HTTP 500
Raised(kind, exception) ==
  [pc |-> "done", kind |-> kind, user |-> 0, form |-> Null,
   loaded |-> Null, outcome |-> exception, errors |-> Null, resp |-> Null]

\* the page index renders for current_user
Rendered(kind, user, resp) ==
  [pc |-> "done", kind |-> kind, user |-> user, form |-> Null,
   loaded |-> Null, outcome |-> "ok", errors |-> Null, resp |-> resp]

Validated(kind, user, form, loaded) ==
  [pc |-> "validated", kind |-> kind, user |-> user, form |-> form,
   loaded |-> loaded, outcome |-> "none", errors |-> Null, resp |-> Null]

\* the commit went through (flash and redirect) or raised
Finished(r, outcome) ==
  [pc |-> "done", kind |-> req[r].kind, user |-> 0, form |-> Null,
   loaded |-> Null, outcome |-> outcome, errors |-> Null, resp |-> Null]

\* before_request: current_user.last_seen = utcnow(); commit
before_request(us, u, now) ==
  {IF x.user_id = u THEN [x EXCEPT !.last_seen = now] ELSE x : x \in us}

UserIds == {x.user_id : x \in users}
UserRow(us, u) == CHOOSE x \in us : x.user_id = u

Pending(kind) == Cardinality({r \in Req : req[r].pc = "validated" /\ req[r].kind = kind})

-----------------------------------------------------------------------------
(* routes.py: register *)

RegisterStart(r, f) ==
  /\ Free(r)
  /\ LET errs == RegistrationFormErrors(users, f)
     IN  IF NoErrors(errs)
         THEN /\ Cardinality(users) + Pending("register") < MaxUsers
              /\ req' = [req EXCEPT ![r] = Validated("register", 0, f, Null)]
         ELSE req' = [req EXCEPT ![r] =
                        Invalid("register", f, Null, errs, Null)]
  /\ UNCHANGED <<tables, uuids, clock>>

\* db.session.add(user); db.session.commit()
RegisterCommit(r) ==
  /\ AtCommit(r, "register")
  /\ LET new == users \cup {NewUser(users, req[r].form, clock)}
     IN  IF UsersUnique(new)
         THEN /\ users' = new
              /\ req' = [req EXCEPT ![r] = Finished(r, "ok")]
         ELSE /\ users' = users
              /\ req' = [req EXCEPT ![r] = Finished(r, "IntegrityError")]
  /\ UNCHANGED <<enterprises, values_table, values_enterprises, uuids, clock>>

-----------------------------------------------------------------------------
(* routes.py: edit_profile *)

\* (variant: the assignments and the commit are not under the if)
EditProfileStart_CommitsAnyway(r, u, f) ==
  /\ Free(r)
  /\ u \in UserIds
  /\ LET us1  == before_request(users, u, clock)
         cur  == UserRow(us1, u)
         errs == EditProfileFormErrors(us1, cur.username, f)
     IN  IF NoErrors(errs)
         THEN /\ users' = us1
              /\ req' = [req EXCEPT ![r] =
                           Validated("edit_profile", u, f,
                                     [username |-> cur.username, about_me |-> cur.about_me])]
         ELSE /\ users' = (us1 \ {cur}) \cup {[cur EXCEPT !.about_me = f.about_me]}
              /\ req' = [req EXCEPT ![r] = Invalid("edit_profile", f, Null, errs, Null)]
  /\ UNCHANGED <<enterprises, values_table, values_enterprises, uuids, clock>>

EditProfileStart(r, u, f) ==
  /\ Free(r)
  /\ u \in UserIds
  /\ LET us1  == before_request(users, u, clock)
         cur  == UserRow(us1, u)
         errs == EditProfileFormErrors(us1, cur.username, f)
     IN  /\ users' = us1
         /\ IF NoErrors(errs)
            THEN req' = [req EXCEPT ![r] =
                           Validated("edit_profile", u, f,
                                     [username |-> cur.username, about_me |-> cur.about_me])]
            ELSE req' = [req EXCEPT ![r] =
                           Invalid("edit_profile", f, Null, errs, Null)]
  /\ UNCHANGED <<enterprises, values_table, values_enterprises, uuids, clock>>

\* the UPDATE sets the columns whose value differs from the one loaded
EditProfileUpdate(cur, loaded, f) ==
  [cur EXCEPT !.username = IF f.username # loaded.username THEN f.username ELSE @,
              !.about_me = IF f.about_me # loaded.about_me THEN f.about_me ELSE @]

EditProfileCommit(r) ==
  /\ AtCommit(r, "edit_profile")
  /\ LET cur == UserRow(users, req[r].user)
         new == (users \ {cur}) \cup {EditProfileUpdate(cur, req[r].loaded, req[r].form)}
     IN  IF UsersUnique(new)
         THEN /\ users' = new
              /\ req' = [req EXCEPT ![r] = Finished(r, "ok")]
         ELSE /\ users' = users
              /\ req' = [req EXCEPT ![r] = Finished(r, "IntegrityError")]
  /\ UNCHANGED <<enterprises, values_table, values_enterprises, uuids, clock>>

-----------------------------------------------------------------------------
(* routes.py: login *)

\* LoginForm: username and password, both DataRequired
LoginFormErrors(f) ==
  [username |-> Chain(DataRequired(f.username), <<>>, <<>>),
   password |-> Chain(DataRequired(f.password), <<>>, <<>>)]

\* (variant: "if user is None", the password not looked at)
Authenticate_NoPasswordCheck(us, f) ==
  LET found == UsersByUsername(us, f.username)
  IN  IF found = {} THEN 0 ELSE (CHOOSE x \in found : TRUE).user_id

\* the user login_user is called with, 0 when the handler flashes instead:
\* User.query.filter_by(username=...).first(), then user.check_password
Authenticate(us, f) ==
  LET found == UsersByUsername(us, f.username)
  IN  IF found = {} THEN 0
      ELSE LET user == CHOOSE x \in found : TRUE
           IN  IF check_password_hash(user.password_hash, f.password)
               THEN user.user_id
               ELSE 0

\* url_parse(next_page).netloc for a next of the form "/path" or "//host/path"
Netloc(next_page) ==
  IF Len(next_page) >= 2 /\ next_page[1] = "/" /\ next_page[2] = "/"
  THEN Split(SubSeq(next_page, 3, Len(next_page)), "/")[1]
  ELSE <<>>

\* url_for("index"), url_for("login")
Url_index == <<"/","i","n","d","e","x">>
Url_login == <<"/","l","o","g","i","n">>

\* where a login that succeeded is redirected
LoginRedirect(next_page) ==
  IF next_page = Null \/ next_page = <<>> \/ Netloc(next_page) # <<>>
  THEN Url_index
  ELSE next_page

\* flash("Usuario y/o contrasena invalidos"); redirect(url_for("login"))
LoginRefused ==
  [message |-> "Usuario y/o contrasena invalidos", redirect |-> Url_login, session |-> 0]

\* what a login request ends with; session is the user id the session cookie
\* of the response holds (0: none), message is what was flashed ("": nothing),
\* redirect is empty when a page is rendered
LoginDone(u, f, outcome, errors, resp) ==
  [pc |-> "done", kind |-> "login", user |-> u, form |-> f,
   loaded |-> Null, outcome |-> outcome, errors |-> errors, resp |-> resp]

\* POST /login?next=next_page from a client whose session holds user u (0: none)
Login(r, u, next_page, f) ==
  /\ Free(r)
  /\ u \in UserIds \cup {0}
  /\ users' = before_request(users, u, clock)
  /\ LET errs == LoginFormErrors(f)
         user == Authenticate(users, f)
     IN  req' = [req EXCEPT ![r] =
           IF u # 0
           THEN LoginDone(u, f, "already_authenticated", Null,
                          [message |-> "", redirect |-> Url_index, session |-> u])
           ELSE IF ~NoErrors(errs)
           THEN LoginDone(u, f, "invalid", errs,
                          [message |-> "", redirect |-> <<>>, session |-> 0])
           ELSE IF user = 0
           THEN LoginDone(u, f, "AuthError", Null, LoginRefused)
           ELSE LoginDone(u, f, "ok", Null,
                          [message |-> "", redirect |-> LoginRedirect(next_page),
                           session |-> user])]
  /\ UNCHANGED <<enterprises, values_table, values_enterprises, uuids, clock>>

(* routes.py: index *)

\* the page of enterprises index renders
ListPage(es, u, page) ==
  {paginate(q, page, ENTERPRISES_PER_PAGE) : q \in get_all_enterprises(es, u)}

\* GET /index?page=n
ListEnterprises(r, u, page) ==
  /\ Free(r)
  /\ u \in UserIds
  /\ users' = before_request(users, u, clock)
  /\ \E resp \in ListPage(enterprises, u, page) :
       req' = [req EXCEPT ![r] = Rendered("list", u, resp)]
  /\ UNCHANGED <<enterprises, values_table, values_enterprises, uuids, clock>>

\* Value.query.filter_by(name=value_name).first() for each name: the row's id,
\* or 0 for None
ValueLookup(vs, names) ==
  [i \in DOMAIN names |->
     IF ValuesByName(vs, names[i]) = {} THEN 0
     ELSE (CHOOSE v \in ValuesByName(vs, names[i]) : TRUE).value_id]

\* POST /index: f0 holds the submitted texts; the values field parses its text.
\* An invalid form falls through to the first page of the list.
CreateEnterpriseStart(r, u, f0) ==
  /\ Free(r)
  /\ u \in UserIds
  /\ users' = before_request(users, u, clock)
  /\ LET f    == [name |-> f0.name, description |-> f0.description,
                  symbol |-> f0.symbol, values_raw |-> f0.values_raw,
                  values |-> process_formdata(f0.values_raw, ",")]
         errs == EnterpriseFormErrors(enterprises, f)
     IN  IF NoErrors(errs)
         THEN /\ uuids < MaxEnterprises
              /\ uuids' = uuids + 1
              /\ req' = [req EXCEPT ![r] =
                           Validated("create", u, f,
                                     [enterprise_id |-> uuids + 1,
                                      found |-> ValueLookup(values_table, f.values)])]
         ELSE /\ uuids' = uuids
              /\ \E resp \in ListPage(enterprises, u, 1) :
                   req' = [req EXCEPT ![r] =
                             Invalid("create", f, Null, errs, resp)]
  /\ UNCHANGED <<enterprises, values_table, values_enterprises, clock>>

\* how many of the first i names had no row when looked up
NewBefore(found, i) == Cardinality({j \in 1..i : found[j] = 0})

\* the id of the Value the enterprise gets for its i-th name: the row found,
\* or the row inserted for it (next autoincrement values; no Value is deleted)
ValueIdFor(vs, found, i) ==
  IF found[i] # 0 THEN found[i] ELSE Cardinality(vs) + NewBefore(found, i)

\* the Value rows inserted with the enterprise
NewValues(vs, names, found, now) ==
  {[value_id |-> ValueIdFor(vs, found, i), name |-> names[i], timestamp |-> now] :
     i \in {j \in DOMAIN names : found[j] = 0}}

\* (variant: enterprise.values.append(value) is inside "if not value")
NewLinks_OnlyNew(vs, names, found, eid) ==
  {[value_id |-> ValueIdFor(vs, found, i), enterprise_id |-> eid] :
     i \in {j \in DOMAIN names : found[j] = 0}}

\* the rows of values_enterprises inserted with the enterprise
NewLinks(vs, names, found, eid) ==
  {[value_id |-> ValueIdFor(vs, found, i), enterprise_id |-> eid] : i \in DOMAIN names}

NewEnterprise(f, eid, u, now) ==
  [enterprise_id |-> eid, name |-> f.name, description |-> f.description,
   symbol |-> f.symbol, timestamp |-> now, user_id |-> u]

\* db.session.add(enterprise); db.session.commit(): one transaction
CreateEnterpriseCommit(r) ==
  /\ AtCommit(r, "create")
  /\ LET f   == req[r].form
         l   == req[r].loaded
         vs1 == values_table \cup NewValues(values_table, f.values, l.found, clock)
         es1 == enterprises \cup {NewEnterprise(f, l.enterprise_id, req[r].user, clock)}
     IN  IF ValuesUnique(vs1) /\ EnterprisesUnique(es1)
         THEN /\ values_table' = vs1
              /\ enterprises' = es1
              /\ values_enterprises' = values_enterprises \cup
                   NewLinks(values_table, f.values, l.found, l.enterprise_id)
              /\ req' = [req EXCEPT ![r] = Finished(r, "ok")]
         ELSE /\ UNCHANGED <<enterprises, values_table, values_enterprises>>
              /\ req' = [req EXCEPT ![r] = Finished(r, "IntegrityError")]
  /\ UNCHANGED <<users, uuids, clock>>

-----------------------------------------------------------------------------
(* routes.py: edit_enterprise *)

\* Enterprise.query.filter_by(name=enterprise_name).first() gives None when no
\* row has the name, and current_enterprise.name then raises AttributeError
EditEnterpriseStart(r, u, enterprise_name, f) ==
  /\ Free(r)
  /\ u \in UserIds
  /\ users' = before_request(users, u, clock)
  /\ IF EnterprisesByName(enterprises, enterprise_name) = {}
     THEN req' = [req EXCEPT ![r] =
                    Raised("edit_enterprise", "AttributeError")]
     ELSE \E cur \in EnterprisesByName(enterprises, enterprise_name) :
            LET errs == EditEnterpriseFormErrors(enterprises, cur.name, cur.symbol, f)
            IN  IF NoErrors(errs)
                THEN req' = [req EXCEPT ![r] =
                               Validated("edit_enterprise", 0, f, cur)]
                ELSE req' = [req EXCEPT ![r] =
                               Invalid("edit_enterprise", f, cur, errs, Null)]
  /\ UNCHANGED <<enterprises, values_table, values_enterprises, uuids, clock>>

\* the assignments of lines 155-157 that change the loaded object
EditEnterpriseChanged(loaded, f) ==
  {k \in {"name", "description", "symbol"} : f[k] # loaded[k]}

\* the UPDATE sets the columns whose value differs from the one loaded
EditEnterpriseUpdate(cur, loaded, f) ==
  [cur EXCEPT !.name = IF f.name # loaded.name THEN f.name ELSE @,
              !.description = IF f.description # loaded.description
                              THEN f.description ELSE @,
              !.symbol = IF f.symbol # loaded.symbol THEN f.symbol ELSE @]

\* db.session.commit(): nothing to flush when no column changed; an UPDATE
\* that matches no row raises StaleDataError
EditEnterpriseCommit(r) ==
  /\ AtCommit(r, "edit_enterprise")
  /\ LET f    == req[r].form
         l    == req[r].loaded
         rows == {e \in enterprises : e.enterprise_id = l.enterprise_id}
     IN  IF EditEnterpriseChanged(l, f) = {}
         THEN /\ enterprises' = enterprises
              /\ req' = [req EXCEPT ![r] = Finished(r, "ok")]
         ELSE IF rows = {}
         THEN /\ enterprises' = enterprises
              /\ req' = [req EXCEPT ![r] = Finished(r, "StaleDataError")]
         ELSE LET cur == CHOOSE e \in rows : TRUE
                  new == (enterprises \ {cur}) \cup {EditEnterpriseUpdate(cur, l, f)}
              IN  IF EnterprisesUnique(new)
                  THEN /\ enterprises' = new
                       /\ req' = [req EXCEPT ![r] = Finished(r, "ok")]
                  ELSE /\ enterprises' = enterprises
                       /\ req' = [req EXCEPT ![r] = Finished(r, "IntegrityError")]
  /\ UNCHANGED <<users, values_table, values_enterprises, uuids, clock>>

-----------------------------------------------------------------------------
(* routes.py: delete_enterprise *)

\* db.session.delete(None) raises UnmappedInstanceError
DeleteEnterpriseStart(r, u, enterprise_name) ==
  /\ Free(r)
  /\ u \in UserIds
  /\ users' = before_request(users, u, clock)
  /\ IF EnterprisesByName(enterprises, enterprise_name) = {}
     THEN req' = [req EXCEPT ![r] =
                    Raised("delete_enterprise", "UnmappedInstanceError")]
     ELSE \E cur \in EnterprisesByName(enterprises, enterprise_name) :
            req' = [req EXCEPT ![r] =
                      Validated("delete_enterprise", 0, Null, cur)]
  /\ UNCHANGED <<enterprises, values_table, values_enterprises, uuids, clock>>

\* (variant: the rows of the secondary table are left behind)
DeleteLinks_Kept(links, eid) == links

\* the rows of the secondary table go with the enterprise (relationship with
\* secondary=values_enterprises); no Value row is deleted
DeleteLinks(links, eid) == {l \in links : l.enterprise_id # eid}

\* db.session.commit().  When another request deleted the row in between, the
\* DELETE matches nothing: a warning, or StaleDataError from the secondary
\* table's DELETE, by the isolation level.
DeleteEnterpriseCommit(r) ==
  /\ AtCommit(r, "delete_enterprise")
  /\ LET eid == req[r].loaded.enterprise_id
     IN  IF \E e \in enterprises : e.enterprise_id = eid
         THEN /\ enterprises' = {e \in enterprises : e.enterprise_id # eid}
              /\ values_enterprises' = DeleteLinks(values_enterprises, eid)
              /\ req' = [req EXCEPT ![r] = Finished(r, "ok")]
         ELSE /\ UNCHANGED <<enterprises, values_enterprises>>
              /\ \E o \in {"ok", "StaleDataError"} :
                   req' = [req EXCEPT ![r] = Finished(r, o)]
  /\ UNCHANGED <<users, values_table, uuids, clock>>

-----------------------------------------------------------------------------
(* The response is sent; time passes *)

Respond(r) ==
  /\ req[r].pc = "done"
  /\ req' = [req EXCEPT ![r] = IdleReq]
  /\ UNCHANGED <<tables, uuids, clock>>

Tick ==
  /\ NoneDone
  /\ clock < MaxClock
  /\ clock' = clock + 1
  /\ UNCHANGED <<tables, uuids, req>>

-----------------------------------------------------------------------------
(* Inputs *)

Text_ana == <<"a","n","a">>
Text_bob == <<"b","o","b">>
Text_ana_mail == <<"a","@","x">>
Text_bob_mail == <<"b","@","x">>
Text_pw == <<"p","w">>
Text_hi == <<"h","i">>
Text_Acme == <<"A","c","m","e">>
Text_Bolt == <<"B","o","l","t">>
Text_d1 == <<"d","1">>
Text_d2 == <<"d","2">>
Text_ABC == <<"A","B","C">>
Text_ab1 == <<"a","b","1">>
Text_ABCD == <<"A","B","C","D">>
Text_ABC_dot_x == <<"A","B","C",".","x">>
Text_IBM == <<"I","B","M">>
Text_AAPL == <<"A","A","P","L">>
\* "T, t" and "t,F"
Text_T_t == <<"T",","," ","t">>
Text_t_F == <<"t",",","F">>

\* "Tech, tech, Finance" and what it is to become
Text_Tech_tech_Finance ==
  <<"T","e","c","h",","," ","t","e","c","h",","," ","F","i","n","a","n","c","e">>
Text_tech == <<"t","e","c","h">>
Text_finance == <<"f","i","n","a","n","c","e">>

\* the inverse of str.split: the tokens with the separator between them
RECURSIVE Join(_, _)
Join(tokens, sep) ==
  IF Len(tokens) = 1 THEN tokens[1]
  ELSE tokens[1] \o <<sep>> \o Join(Tail(tokens), sep)

\* "a,b,c,..." of n one-letter values
LetterValues(n) == Join([i \in 1..n |-> <<LowerLetters[i]>>], ",")

\* the raw values strings of the normalisation specification: every string of
\* up to MaxRawLen characters of RawAlphabet, the example, and lists of
\* ValuesMaxLen and ValuesMaxLen + 1 values, of the latter one with a repeat
RawAlphabet == {"T", "t", "f", " ", ","}
RawTexts ==
  UNION {[1..n -> RawAlphabet] : n \in 0..MaxRawLen}
    \cup {Text_Tech_tech_Finance,
          LetterValues(ValuesMaxLen),
          LetterValues(ValuesMaxLen + 1),
          LetterValues(ValuesMaxLen) \o <<",", " ", "A">>}

\* a text of n characters
Fill(n) == [i \in 1..n |-> "x"]

RegisterForm(username, email, password2) ==
  [username |-> username, email |-> email, password |-> Text_pw, password2 |-> password2]

RegisterForms ==
  {RegisterForm(Text_ana, Text_ana_mail, Text_pw),
   RegisterForm(Text_bob, Text_bob_mail, Text_pw),
   RegisterForm(Text_bob, Text_ana_mail, Text_pw),
   RegisterForm(<<" ">>, Text_ana_mail, Text_pw),
   RegisterForm(Text_ana, Text_ana, Text_pw),
   RegisterForm(Text_ana, Text_ana_mail, Text_hi)}

EditProfileForms ==
  {[username |-> Text_ana, about_me |-> Text_hi],
   [username |-> Text_bob, about_me |-> Text_hi],
   [username |-> <<>>, about_me |-> Text_hi],
   [username |-> Text_ana, about_me |-> Fill(AboutMeMaxLen + 1)]}

EnterpriseNames == {Text_Acme, Text_Bolt}

EnterpriseForm(name, description, symbol, values_raw) ==
  [name |-> name, description |-> description, symbol |-> symbol,
   values_raw |-> values_raw]

\* three forms the validators accept on an empty table (two share a name, two
\* a symbol, all three the value "t") and forms each validator rejects
EnterpriseForms ==
  {EnterpriseForm(Text_Acme, Text_d1, Text_ABC, Text_T_t),
   EnterpriseForm(Text_Bolt, Text_d1, Text_ABC_dot_x, Text_t_F),
   EnterpriseForm(Text_Bolt, Text_d1, Text_ABC, Text_t_F),
   EnterpriseForm(Text_Acme, Text_d1, Text_ab1, Text_t_F),
   EnterpriseForm(Text_Acme, Text_d1, Text_ABCD, Text_t_F),
   EnterpriseForm(Text_Acme, Text_d1, Text_IBM, Text_t_F),
   EnterpriseForm(<<>>, Text_d1, Text_ABC, Text_t_F),
   EnterpriseForm(Fill(NameMaxLen + 1), Text_d1, Text_ABC, Text_t_F),
   EnterpriseForm(Text_Acme, Fill(DescriptionMaxLen + 1), Text_ABC, Text_t_F),
   EnterpriseForm(Text_Acme, Text_d1, Text_ABC \o Fill(SymbolMaxLen), Text_t_F)}

EditEnterpriseForm(name, description, symbol) ==
  [name |-> name, description |-> description, symbol |-> symbol]

EditEnterpriseFormsBad ==
  {EditEnterpriseForm(Text_Acme, Text_d2, Text_IBM),
   EditEnterpriseForm(Text_Acme, Text_d2, Text_ab1),
   EditEnterpriseForm(Text_Acme, <<>>, Text_ABC)}

\* every name with every symbol that can be stored
EditEnterpriseFormsAll ==
  {EditEnterpriseForm(n, Text_d2, s) :
     n \in EnterpriseNames, s \in {Text_ABC, Text_ABC_dot_x}} \cup EditEnterpriseFormsBad

Pages == 0..2

-----------------------------------------------------------------------------
(* The specification *)

Init ==
  /\ users = {}
  /\ enterprises = {}
  /\ values_table = {}
  /\ values_enterprises = {}
  /\ uuids = 0
  /\ clock = 0
  /\ req = [r \in Req |-> IdleReq]

\* the requests of slots R, with forms drawn from RF, PF, CF and EF
NextOf(R, US, RF, PF, CF, EF) ==
  \/ \E r \in R, f \in RF : RegisterStart(r, f)
  \/ \E r \in R : RegisterCommit(r)
  \/ \E r \in R, u \in US, f \in PF : EditProfileStart(r, u, f)
  \/ \E r \in R : EditProfileCommit(r)
  \/ \E r \in R, u \in US, page \in Pages : ListEnterprises(r, u, page)
  \/ \E r \in R, u \in US, f \in CF : CreateEnterpriseStart(r, u, f)
  \/ \E r \in R : CreateEnterpriseCommit(r)
  \/ \E r \in R, u \in US, n \in EnterpriseNames, f \in EF :
       EditEnterpriseStart(r, u, n, f)
  \/ \E r \in R : EditEnterpriseCommit(r)
  \/ \E r \in R, u \in US, n \in EnterpriseNames : DeleteEnterpriseStart(r, u, n)
  \/ \E r \in R : DeleteEnterpriseCommit(r)
  \/ \E r \in R : Respond(r)

\* Requests interleaving, within one reading of the clock, in the session of
\* the first user: the forms that can conflict at the commit, and of the forms
\* the validators reject a few
RaceRegisterForms ==
  {RegisterForm(Text_ana, Text_ana_mail, Text_pw),
   RegisterForm(Text_bob, Text_bob_mail, Text_pw),
   RegisterForm(Text_bob, Text_ana_mail, Text_pw),
   RegisterForm(<<" ">>, Text_ana_mail, Text_pw)}
RaceEditProfileForms ==
  {[username |-> Text_ana, about_me |-> Text_hi],
   [username |-> Text_bob, about_me |-> Text_hi],
   [username |-> <<>>, about_me |-> Text_hi]}
RaceEnterpriseForms ==
  {EnterpriseForm(Text_Acme, Text_d1, Text_ABC, Text_T_t),
   EnterpriseForm(Text_Bolt, Text_d1, Text_ABC_dot_x, Text_t_F),
   EnterpriseForm(Text_Bolt, Text_d1, Text_ABC, Text_t_F),
   EnterpriseForm(Text_Acme, Text_d1, Text_ab1, Text_t_F),
   EnterpriseForm(Text_Acme, Text_d1, Text_IBM, Text_t_F)}
RaceEditEnterpriseForms ==
  {EditEnterpriseForm(Text_Bolt, Text_d2, Text_ABC),
   EditEnterpriseForm(Text_Acme, Text_d2, Text_ABC_dot_x),
   EditEnterpriseForm(Text_Acme, Text_d2, Text_IBM)}

Next ==
  NextOf(Req, {1}, RaceRegisterForms, RaceEditProfileForms, RaceEnterpriseForms,
         RaceEditEnterpriseForms)

Spec == Init /\ [][Next]_vars

\* One request at a time, from either user, while time passes
NextTime ==
  \/ NextOf({1}, 1..MaxUsers, RegisterForms, EditProfileForms, EnterpriseForms,
            EditEnterpriseFormsAll)
  \/ Tick

SpecTime == Init /\ [][NextTime]_vars

\* One user submitting the enterprise form with every raw values string
NormForms == {EnterpriseForm(Text_Acme, Text_d1, Text_ABC, raw) : raw \in RawTexts}

NextNorm ==
  \/ RegisterStart(1, RegisterForm(Text_ana, Text_ana_mail, Text_pw))
  \/ RegisterCommit(1)
  \/ \E f \in NormForms : CreateEnterpriseStart(1, 1, f)
  \/ CreateEnterpriseCommit(1)
  \/ Respond(1)

SpecNorm == Init /\ [][NextNorm]_vars

\* One client logging in, with or without a session, while users register
Text_zed == <<"z","e","d">>
LoginForms ==
  {[username |-> n, password |-> p] :
     n \in {Text_ana, Text_bob, Text_zed, <<>>}, p \in {Text_pw, Text_hi, <<>>}}

\* no next, a path of this site, a path of another host
NextPages == {Null, <<"/","x">>, <<"/","/","e","/","x">>}

LoginRegisterForms ==
  {RegisterForm(Text_ana, Text_ana_mail, Text_pw),
   [username |-> Text_bob, email |-> Text_bob_mail,
    password |-> Text_hi, password2 |-> Text_hi]}

NextLogin ==
  \/ \E f \in LoginRegisterForms : RegisterStart(1, f)
  \/ RegisterCommit(1)
  \/ \E u \in 0..MaxUsers, n \in NextPages, f \in LoginForms : Login(1, u, n, f)
  \/ Respond(1)
  \/ Tick

SpecLogin == Init /\ [][NextLogin]_vars

\* One user creating and editing enterprises with every kind of symbol:
\* well-formed, followed by more text, malformed, in the external set
\* (well-formed or not), empty, too long
SymbolCandidates ==
  {Text_ABC, Text_ABC_dot_x, Text_ab1, Text_ABCD, Text_IBM, Text_AAPL,
   <<>>, Text_ABC \o Fill(SymbolMaxLen)}

SymbolCreateForms ==
  {EnterpriseForm(n, Text_d1, c, Text_t_F) : n \in EnterpriseNames, c \in SymbolCandidates}

SymbolEditForms ==
  {EditEnterpriseForm(n, Text_d2, c) : n \in EnterpriseNames, c \in SymbolCandidates}

NextSymbol ==
  \/ RegisterStart(1, RegisterForm(Text_ana, Text_ana_mail, Text_pw))
  \/ RegisterCommit(1)
  \/ \E f \in SymbolCreateForms : CreateEnterpriseStart(1, 1, f)
  \/ CreateEnterpriseCommit(1)
  \/ \E n \in EnterpriseNames, f \in SymbolEditForms : EditEnterpriseStart(1, 1, n, f)
  \/ EditEnterpriseCommit(1)
  \/ Respond(1)

SpecSymbol == Init /\ [][NextSymbol]_vars

-----------------------------------------------------------------------------
(* Properties *)

Distinct(S, Key(_)) == Cardinality({Key(x) : x \in S}) = Cardinality(S)

UsernameOf(x) == x.username
EmailOf(x) == x.email
NameOf(x) == x.name
SymbolOf(x) == x.symbol

\* C1: in every reachable state no two User rows share a username or an
\* email, no two Enterprise rows share a name or a symbol, and no two Value
\* rows share a name.
C1_RowsAreUnique ==
  /\ Distinct(users, UsernameOf)
  /\ Distinct(users, EmailOf)
  /\ Distinct(enterprises, NameOf)
  /\ Distinct(enterprises, SymbolOf)
  /\ Distinct(values_table, NameOf)

\* two users, two enterprises and two values are stored, and a commit has just
\* been refused by a unique constraint
C1_Witness ==
  /\ Cardinality(users) = 2
  /\ Cardinality(enterprises) = 2
  /\ Cardinality(values_table) = 2
  /\ \E r \in Req : req[r].pc = "done" /\ req[r].outcome = "IntegrityError"

\* C2: a request whose commit the unique constraints refuse (it passed the
\* validation before the other request committed) ends with a validation
\* outcome carrying DuplicateValue, never with an exception nobody handles.
C2_RaceEndsAsDuplicateValue ==
  \A r \in Req :
    (req[r].pc = "done" /\ req[r].kind \in {"register", "edit_profile", "create", "edit_enterprise"})
      => /\ req[r].outcome # "IntegrityError"
         /\ req[r].outcome \in {"ok", "invalid", "StaleDataError", "AttributeError"}

LinksOf(links, eid) == {l \in links : l.enterprise_id = eid}

C6_LinksResolve ==
  \A l \in values_enterprises :
    /\ \E e \in enterprises : e.enterprise_id = l.enterprise_id
    /\ \E v \in values_table : v.value_id = l.value_id

C6_DeleteStep ==
  /\ values_table \subseteq values_table'
  /\ \A r \in Req :
       (AtCommit(r, "delete_enterprise") /\ req'[r].pc = "done") =>
         LET eid == req[r].loaded.enterprise_id
         IN  /\ ~ \E e \in enterprises' : e.enterprise_id = eid
             /\ LinksOf(values_enterprises', eid) = {}
             /\ values_table' = values_table

\* C6: every association row references a stored Enterprise and a stored
\* Value in every reachable state; the commit of delete_enterprise leaves
\* neither the Enterprise row nor an association row of it, and no step
\* removes a Value row.
C6_DeleteRemovesLinksKeepsValues == []C6_LinksResolve /\ [][C6_DeleteStep]_vars

\* an enterprise has just been deleted and a Value no enterprise references
\* is still stored
C6_Witness ==
  /\ \E r \in Req :
       req[r].pc = "done" /\ req[r].kind = "delete_enterprise" /\ req[r].outcome = "ok"
  /\ \E v \in values_table : \A l \in values_enterprises : l.value_id # v.value_id

\* C3: every stored symbol is exactly three letters A-Z and is not in the
\* external set (a create or an edit with any other symbol stores nothing).
C3_StoredSymbolsAreTickers ==
  \A e \in enterprises :
    /\ Len(e.symbol) = 3
    /\ \A i \in DOMAIN e.symbol : IsUpper(e.symbol[i])
    /\ e.symbol \notin nyse_symbols

Max(a, b) == IF a > b THEN a ELSE b

\* C4: the list a user gets is the page-th slice of three of that user's own
\* enterprises, newest first, with hasNext exactly when more of them follow
\* (an empty list past the last page).
C4_ListIsOwnersPage ==
  \A r \in Req :
    (req[r].pc = "done" /\ req[r].kind = "list") =>
      LET own   == {e \in enterprises : e.user_id = req[r].user}
          n     == Cardinality(own)
          p     == req[r].resp.page
          items == req[r].resp.items
      IN  /\ \A i \in DOMAIN items : items[i] \in own
          /\ Len(items) = Max(0, Min(ENTERPRISES_PER_PAGE, n - (p - 1) * ENTERPRISES_PER_PAGE))
          /\ \A i, j \in DOMAIN items : i < j => items[i].timestamp >= items[j].timestamp
          /\ req[r].resp.has_next = (n > p * ENTERPRISES_PER_PAGE)

\* the users table without the column before_request writes
WithoutLastSeen(us) ==
  {[user_id |-> x.user_id, username |-> x.username, email |-> x.email,
    password_hash |-> x.password_hash, about_me |-> x.about_me] : x \in us}

C5_InvalidStep ==
  \A r \in Req :
    (req[r].pc = "idle" /\ req'[r].pc = "done" /\ req'[r].outcome = "invalid") =>
      /\ WithoutLastSeen(users') = WithoutLastSeen(users)
      /\ enterprises' = enterprises
      /\ values_table' = values_table
      /\ values_enterprises' = values_enterprises

\* C5: a request of register, edit_profile, index or edit_enterprise whose
\* form does not validate leaves the rows of all four tables as they were
\* (but for last_seen, which is not a field of any form).
C5_InvalidPersistsNothing == [][C5_InvalidStep]_vars

\* an edit of one of two enterprises was refused for the other's name, after
\* before_request moved the user's last_seen
C5_Witness ==
  /\ Cardinality(enterprises) = 2
  /\ \E x \in users : x.last_seen > 0
  /\ \E r \in Req :
       /\ req[r].pc = "done" /\ req[r].outcome = "invalid"
       /\ req[r].kind = "edit_enterprise"
       /\ req[r].errors.name = <<"DuplicateValue">>

\* C7: an edit or a delete addressed to a name no enterprise has ends with
\* NotFound, not with the exception the failed lookup leads to.
C7_MissingTargetIsNotFound ==
  \A r \in Req :
    (req[r].pc = "done" /\ req[r].kind \in {"edit_enterprise", "delete_enterprise"})
      => req[r].outcome \notin {"AttributeError", "UnmappedInstanceError"}

C8_CreateStep ==
  \A r \in Req :
    (AtCommit(r, "create") /\ req'[r].pc = "done" /\ req'[r].outcome = "ok") =>
      LET V     == req[r].form.values
          eid   == req[r].loaded.enterprise_id
          known == {i \in DOMAIN V : ValuesByName(values_table, V[i]) # {}}
          mine  == {l.value_id : l \in LinksOf(values_enterprises', eid)}
      IN  /\ values_table \subseteq values_table'
          /\ Cardinality(values_table') = Cardinality(values_table) + Len(V) - Cardinality(known)
          /\ \A i \in DOMAIN V :
               /\ Cardinality(ValuesByName(values_table', V[i])) = 1
               /\ \A v \in ValuesByName(values_table', V[i]) : v.value_id \in mine
          /\ Cardinality(mine) = Len(V)
          /\ LinksOf(values_enterprises, eid) = {}

\* C8: the commit of a create with value names V leaves the enterprise
\* associated with exactly one Value row per name of V, the rows that were
\* stored are still there unchanged, and one row is added per name that had none.
C8_CreateReusesValues == [][C8_CreateStep]_vars

\* two enterprises share a Value row and one of them has a second one
C8_Witness ==
  /\ Cardinality(values_table) = 2
  /\ \E a, b \in values_enterprises :
       a.value_id = b.value_id /\ a.enterprise_id # b.enterprise_id
  /\ \E e \in enterprises : Cardinality(LinksOf(values_enterprises, e.enterprise_id)) = 2

\* s is t without the whitespace at its ends
Trimmed(t, s) ==
  \E a, b \in 0..Len(t) :
    /\ a + b <= Len(t)
    /\ s = SubSeq(t, a + 1, Len(t) - b)
    /\ \A i \in 1..a : t[i] \in Whitespace
    /\ \A i \in (Len(t) - b + 1)..Len(t) : t[i] \in Whitespace
    /\ s = <<>> \/ (s[1] \notin Whitespace /\ s[Len(s)] \notin Whitespace)

\* out is what the claim says the raw string becomes
C9_Normalised(raw, out) ==
  LET tokens   == Split(raw, ",")
      norm     == [i \in DOMAIN tokens |-> Lower(Strip(tokens[i]))]
      First(x) == CHOOSE i \in DOMAIN norm :
                    norm[i] = x /\ \A j \in 1..(i - 1) : norm[j] # x
  IN  /\ Join(tokens, ",") = raw
      /\ \A i \in DOMAIN tokens :
           "," \notin Range(tokens[i]) /\ Trimmed(tokens[i], Strip(tokens[i]))
      /\ Range(out) = Range(norm)
      /\ \A i, j \in DOMAIN out :
           i < j => (out[i] # out[j] /\ First(out[i]) < First(out[j]))
      /\ \A i \in DOMAIN out : \A c \in Range(out[i]) : ~IsUpper(c)

C9_Submitted ==
  \A r \in Req :
    (/\ req[r].kind = "create"
     /\ req[r].pc = "validated" \/ (req[r].pc = "done" /\ req[r].outcome = "invalid")) =>
      LET raw == req[r].form.values_raw
          out == req[r].form.values
      IN  /\ C9_Normalised(raw, out)
          /\ raw = Text_Tech_tech_Finance => out = <<Text_tech, Text_finance>>
          /\ req[r].pc = "validated" => Len(out) <= ValuesMaxLen
          /\ req[r].pc = "done" =>
               ((req[r].errors.values = <<"LengthError">>) <=> (Len(out) > ValuesMaxLen))

C9_Stored ==
  \A e \in enterprises :
    LET ids   == {l.value_id : l \in LinksOf(values_enterprises, e.enterprise_id)}
        names == {v.name : v \in {w \in values_table : w.value_id \in ids}}
    IN  /\ Cardinality(ids) <= ValuesMaxLen
        /\ Cardinality({Lower(n) : n \in names}) = Cardinality(ids)

\* C9: the values of a submitted enterprise form are the tokens of the raw
\* string between the separators, trimmed and lower-cased, the first of each
\* kept in order; the form is refused with LengthError exactly when more than
\* 10 are left, so a stored enterprise has at most 10 values, no two alike
\* ignoring case ("Tech, tech, Finance" gives tech, finance).
C9_ValuesNormalised == C9_Submitted /\ C9_Stored

\* the example is stored, normalised, and a list of 11 values is refused
C9_Witness ==
  /\ \E e \in enterprises :
       {v.name : v \in {w \in values_table :
          \E l \in LinksOf(values_enterprises, e.enterprise_id) : l.value_id = w.value_id}}
         = {Text_tech, Text_finance}
  /\ \E r \in Req :
       /\ req[r].pc = "done" /\ req[r].outcome = "invalid" /\ req[r].kind = "create"
       /\ req[r].errors.values = <<"LengthError">>
       /\ Len(req[r].form.values) = ValuesMaxLen + 1

\* the form repeats the name and the symbol of the enterprise it addresses
NoOpEdit(q) ==
  /\ q.kind = "edit_enterprise"
  /\ q.pc = "validated" \/ (q.pc = "done" /\ q.outcome = "invalid")
  /\ q.form.name = q.loaded.name
  /\ q.form.symbol = q.loaded.symbol

C10_Validation ==
  /\ \A r \in Req :
       (req[r].pc = "done" /\ req[r].outcome = "invalid" /\ NoOpEdit(req[r])) =>
         /\ req[r].errors.name = <<>>
         /\ req[r].errors.symbol = <<>>
         /\ ~(DataRequired(req[r].form.description)
              /\ LengthOK(req[r].form.description, 1, DescriptionMaxLen))
  /\ \A s \in nyse_symbols \cup {e.symbol : e \in enterprises} :
       EditEnterprise_validate_symbol(enterprises, s, s) = <<>>
  /\ \A e \in enterprises :
       EditEnterprise_validate_name(enterprises, e.name, e.name) = <<>>

\* the commit of such an edit while E is stored with that name and that symbol
C10_CommitStep ==
  \A r \in Req :
    (AtCommit(r, "edit_enterprise") /\ NoOpEdit(req[r]) /\ req'[r].pc = "done") =>
      \A e \in enterprises :
        (/\ e.enterprise_id = req[r].loaded.enterprise_id
         /\ e.name = req[r].form.name
         /\ e.symbol = req[r].form.symbol) =>
          /\ req'[r].outcome = "ok"
          /\ \E d \in enterprises' :
               /\ d.enterprise_id = e.enterprise_id
               /\ d.name = e.name /\ d.symbol = e.symbol
               /\ d.description = req[r].form.description

\* C10: an edit that submits the addressed enterprise's own name and symbol
\* fails no name or symbol check (it is refused only for its description),
\* commits, and leaves the name and the symbol as they were.
C10_NoOpEditPasses == []C10_Validation /\ [][C10_CommitStep]_vars

\* such an edit has passed the validation while another enterprise is stored
C10_Witness ==
  /\ Cardinality(enterprises) = 2
  /\ \E r \in Req : req[r].pc = "validated" /\ NoOpEdit(req[r])

\* the users whose name and stored hash the submitted credentials match
Matching(us, f) ==
  {x \in us : x.username = f.username
              /\ x.password_hash = generate_password_hash(f.password)}

C11_LoginStep ==
  \A r \in Req :
    (/\ req[r].pc = "idle" /\ req'[r].pc = "done"
     /\ req'[r].kind = "login" /\ req'[r].user = 0) =>
      LET f     == req'[r].form
          resp  == req'[r].resp
          match == Matching(users, f)
      IN  /\ resp.session # 0 => resp.session \in {x.user_id : x \in match}
          /\ (NoErrors(LoginFormErrors(f)) /\ match = {}) =>
               /\ req'[r].outcome = "AuthError"
               /\ resp = LoginRefused
          /\ (NoErrors(LoginFormErrors(f)) /\ match # {}) => resp.session # 0
          /\ resp.session = 0 =>
               /\ users' = users
               /\ enterprises' = enterprises
               /\ values_table' = values_table
               /\ values_enterprises' = values_enterprises

\* C11: a login without a session whose username matches no user, or whose
\* password does not match that user's stored hash, ends with one and the same
\* message and redirect, a response that holds no session, and every row as it
\* was; the response holds a session only of a user whose name and hash the
\* credentials match.
C11_LoginRefusalsAlike == [][C11_LoginStep]_vars

\* ana's name with bob's password was refused
C11_Witness ==
  /\ \E x, y \in users :
       /\ x.username = Text_ana /\ x.password_hash = generate_password_hash(Text_pw)
       /\ y.username = Text_bob /\ y.password_hash = generate_password_hash(Text_hi)
  /\ \E r \in Req :
       /\ req[r].pc = "done" /\ req[r].kind = "login"
       /\ req[r].outcome = "AuthError"
       /\ req[r].form = [username |-> Text_ana, password |-> Text_hi]
       /\ req[r].resp = LoginRefused

IsSymbolRule(e) == e \in {"ExternalConflict", "DuplicateValue", "FormatError"}

\* errs is the error of the first rule the candidate breaks, and nothing else
C12_FirstFailureOnly(es, candidate, errs) ==
  LET external  == candidate \in nyse_symbols
      used      == \E e \in es : e.symbol = candidate
      malformed == ~TickerMatch(candidate)
  IN  /\ Len(errs) <= 1
      /\ external => errs = <<"ExternalConflict">>
      /\ (~external /\ used) => errs = <<"DuplicateValue">>
      /\ (~external /\ ~used /\ malformed) => errs = <<"FormatError">>
      /\ (~external /\ ~used /\ ~malformed) => errs = <<>>

\* both validate_symbol methods, on every candidate against the stored rows
C12_Validators ==
  \A c \in SymbolCandidates :
    /\ C12_FirstFailureOnly(enterprises, c, Enterprise_validate_symbol(enterprises, c))
    /\ \A o \in SymbolCandidates \ {c} :
         C12_FirstFailureOnly(enterprises, c, EditEnterprise_validate_symbol(enterprises, o, c))

\* what a create or an edit that reached the form's validation reports
C12_Step ==
  \A r \in Req :
    (/\ req[r].pc = "idle"
     /\ req'[r].kind \in {"create", "edit_enterprise"}
     /\ req'[r].pc = "validated" \/ (req'[r].pc = "done" /\ req'[r].outcome = "invalid")) =>
      LET c       == req'[r].form.symbol
          errs    == IF req'[r].pc = "validated" THEN <<>>
                     ELSE SelectSeq(req'[r].errors.symbol, IsSymbolRule)
          checked == /\ DataRequired(c)
                     /\ req'[r].kind = "create" \/ c # req'[r].loaded.symbol
      IN  IF checked
          THEN C12_FirstFailureOnly(enterprises, c, errs)
          ELSE errs = <<>>

\* C12: the symbol of a create, and of an edit that changes it, gets exactly
\* the error of the first rule it breaks in the order ExternalConflict (in the
\* external set), DuplicateValue (used by an enterprise), FormatError (the
\* regular expression does not match), and no other of the three.
C12_SymbolChecksInOrder == []C12_Validators /\ [][C12_Step]_vars

\* a four-letter symbol of the external set, which the expression does not
\* match either, was refused as ExternalConflict while two enterprises exist
C12_Witness ==
  /\ Cardinality(enterprises) = 2
  /\ Text_AAPL \in nyse_symbols /\ ~TickerMatch(Text_AAPL)
  /\ \E r \in Req :
       /\ req[r].pc = "done" /\ req[r].outcome = "invalid"
       /\ req[r].kind \in {"create", "edit_enterprise"}
       /\ req[r].form.symbol = Text_AAPL
       /\ req[r].errors.symbol = <<"ExternalConflict">>

====
